---- MODULE Spec2Model ----
(***************************************************************************)
(* The raw-API request server of a shard (nil/services/rpc/rawapi/         *)
(* server.go): construction of one request handler per exported method of  *)
(* the shard API, their installation into the network manager under        *)
(* "/shard/<shardId>/<apiName>/<methodName>", and the execution of an      *)
(* installed handler on an inbound request.                                *)
(***************************************************************************)
EXTENDS Integers, Sequences, FiniteSets, TLC

(***************************************************************************)
(* Bounds of the model.                                                    *)
(***************************************************************************)
\* the shard ids are the first MaxShardId + 1 multiples of ShardStride, so that
\* some have more than one decimal digit
MaxShardId == 1
ShardStride == 12
\* how many methods of NetworkTransportProtocolRo (in source order) are kept
MaxRoMethods == 2
\* how many times the registration functions are called
MaxRegistrations == 2
\* how many handler executions the transport runs at the same time
MaxInFlight == 1
\* how many handler executions run at the same time once registration is over
MaxConcurrent == 2
\* request bytes and argument / result values range over 0..MaxArg
MaxArg == 1
\* longest request, in bytes
MaxRequestLen == 3

ShardIds == {ShardStride * k : k \in 0 .. MaxShardId}
Slots == 1 .. MaxInFlight
Workers == 1 .. MaxConcurrent
Bytes == 0 .. MaxArg

Min(a, b) == IF a <= b THEN a ELSE b

\* the absent error (Go's nil error) and the absent byte slice
NoError == "nil"
NilBytes == [pb |-> "", failed |-> FALSE, error |-> NoError, data |-> << >>]

(***************************************************************************)
(* The method sets.                                                        *)
(***************************************************************************)
\* the methods of interface NetworkTransportProtocolRo, in source order
RoProtocolMethods ==
    << [Name |-> "GetBlockHeader",           In |-> <<"BlockRequest">>,       Out |-> "RawBlockResponse"],
       [Name |-> "GetFullBlockData",         In |-> <<"BlockRequest">>,       Out |-> "RawFullBlockResponse"],
       [Name |-> "GetBlockTransactionCount", In |-> <<"BlockRequest">>,       Out |-> "Uint64Response"],
       [Name |-> "GetInTransaction",         In |-> <<"TransactionRequest">>, Out |-> "TransactionResponse"],
       [Name |-> "GetInTransactionReceipt",  In |-> <<"Hash">>,               Out |-> "ReceiptResponse"],
       [Name |-> "GetBalance",               In |-> <<"AccountRequest">>,     Out |-> "BalanceResponse"],
       [Name |-> "GetCode",                  In |-> <<"AccountRequest">>,     Out |-> "CodeResponse"],
       [Name |-> "GetTokens",                In |-> <<"AccountRequest">>,     Out |-> "TokensResponse"],
       [Name |-> "GetTransactionCount",      In |-> <<"AccountRequest">>,     Out |-> "Uint64Response"],
       [Name |-> "GetContract",              In |-> <<"AccountRequest">>,     Out |-> "RawContractResponse"],
       [Name |-> "Call",                     In |-> <<"CallRequest">>,        Out |-> "CallResponse"],
       [Name |-> "GasPrice",                 In |-> << >>,                    Out |-> "GasPriceResponse"],
       [Name |-> "GetShardIdList",           In |-> << >>,                    Out |-> "ShardIdListResponse"],
       [Name |-> "GetNumShards",             In |-> << >>,                    Out |-> "Uint64Response"] >>

\* interface NetworkTransportProtocolRo: the first MaxRoMethods of its methods
NetworkTransportProtocolRo ==
    [name |-> "NetworkTransportProtocolRo",
     methods |-> {RoProtocolMethods[i] : i \in 1 .. Min(MaxRoMethods, Len(RoProtocolMethods))}]

\* interface NetworkTransportProtocol: the read-only methods and SendTransaction
NetworkTransportProtocol ==
    [name |-> "NetworkTransportProtocol",
     methods |-> NetworkTransportProtocolRo.methods \cup
        {[Name |-> "SendTransaction", In |-> <<"SendTransactionRequest">>,
          Out |-> "SendTransactionResponse"]}]

\* reflect.Method of an API type: an exported method has an empty PkgPath
ApiMethod(name, pkgPath) == [Name |-> name, PkgPath |-> pkgPath]

\* interface ShardApiRo: one method per method of the read-only mirror
ShardApiRo ==
    [name |-> "ShardApiRo",
     methods |-> {ApiMethod(m.Name, "") : m \in NetworkTransportProtocolRo.methods}]

\* interface ShardApi: ShardApiRo, SendTransaction and an unexported helper
ShardApi ==
    [name |-> "ShardApi",
     methods |-> ShardApiRo.methods \cup
        {ApiMethod("SendTransaction", ""), ApiMethod("setNodeApi", "rawapi")}]

MethodNames(type) == {m.Name : m \in type.methods}

(***************************************************************************)
(* API values (the `api` argument).                                        *)
(***************************************************************************)
\* the nil interface value
NilApi == [name |-> "nil", isNil |-> TRUE, methods |-> {}]
\* an implementation of the whole of ShardApi
FullApi == [name |-> "fullApi", isNil |-> FALSE, methods |-> MethodNames(ShardApi)]
\* an implementation of ShardApiRo only
RoApi == [name |-> "roApi", isNil |-> FALSE, methods |-> MethodNames(ShardApiRo)]

\* reflect.ValueOf(api).Type().Implements(apiType)
Implements(api, apiType) == MethodNames(apiType) \subseteq api.methods

\* common.Filter(iterMethods(apiType), isExportedMethod)
isExportedMethod(method) == method.PkgPath = ""
ExportedMethods(apiType) == {m \in apiType.methods : isExportedMethod(m)}

(***************************************************************************)
(* The codec table and the transport: code of the repository outside this  *)
(* file, modelled from its contract.                                       *)
(***************************************************************************)
\* the codec entry of one method: its name and the mirror method's shapes
methodCodec(pbMethod) ==
    [method |-> pbMethod.Name, pbRequest |-> pbMethod.In, pbResponse |-> pbMethod.Out]

\* newApiCodec: matches every exported API method with the mirror method of
\* the same name; a method without a mirror is an error.  `derivable' is the
\* set of method names the builder produces an entry for.
newApiCodec(apiType, protocolInterfaceType, derivable) ==
    LET exported == {m.Name : m \in ExportedMethods(apiType)}
        mirror(n) == CHOOSE pb \in protocolInterfaceType.methods : pb.Name = n
    IN  IF exported \subseteq MethodNames(protocolInterfaceType)
        THEN [err |-> NoError,
              table |-> [n \in exported \cap derivable |-> methodCodec(mirror(n))]]
        ELSE [err |-> "mirror method not found", table |-> << >>]

\* codec.unpackRequest: a request is the header byte 1 followed by one byte
\* per argument, in the order of the arguments; anything else does not decode
unpackRequest(codec, request) ==
    IF Len(request) >= 1 /\ request[1] = 1
    THEN [args |-> Tail(request), err |-> NoError]
    ELSE [args |-> << >>, err |-> "cannot unpack request"]

\* codec.packError: the response shape of the method, carrying the failure
packError(codec, err) ==
    [pb |-> codec.pbResponse, failed |-> TRUE, error |-> err, data |-> << >>]

\* codec.packResponse: the method's results (value, error) in its response shape
packResponse(codec, results) ==
    [bytes |-> IF results[2] # NoError
               THEN packError(codec, results[2])
               ELSE [pb |-> codec.pbResponse, failed |-> FALSE, error |-> NoError,
                     data |-> <<results[1]>>],
     err |-> NoError]

\* network.Manager.SetRequestHandler: overwrite-on-insert into the handler table
SetRequestHandler(table, name, handler) ==
    [p \in DOMAIN table \cup {name} |-> IF p = name THEN handler ELSE table[p]]

(***************************************************************************)
(* server.go                                                               *)
(***************************************************************************)
errRequestHandlerCreation == "failed to create request handler"

\* the verb %d: a natural number in decimal
Digits == <<"0", "1", "2", "3", "4", "5", "6", "7", "8", "9">>
RECURSIVE Decimal(_)
Decimal(n) == IF n < 10 THEN Digits[n + 1] ELSE Decimal(n \div 10) \o Digits[(n % 10) + 1]

\* faulty variant: the shard id is left out of the identifier
ProtocolID_noShard(shardId, apiName, methodName) ==
    "/shard/" \o apiName \o "/" \o methodName

\* faulty variant: the api name and the method name change places
ProtocolID_swapped(shardId, apiName, methodName) ==
    "/shard/" \o Decimal(shardId) \o "/" \o methodName \o "/" \o apiName

\* fmt.Sprintf("/shard/%d/%s/%s", shardId, apiName, methodName)
ProtocolID(shardId, apiName, methodName) ==
    "/shard/" \o Decimal(shardId) \o "/" \o apiName \o "/" \o methodName

\* faulty variant: every handler is bound to one and the same method of the
\* receiver, as when the closures share the variable of the loop
MethodByName_shared(api, methodName) ==
    [recv |-> api.name, Name |-> CHOOSE n \in api.methods : TRUE, valid |-> TRUE]

\* apiValue.MethodByName(methodName): the method bound to its receiver
MethodByName(api, methodName) ==
    [recv |-> api.name, Name |-> methodName, valid |-> methodName \in api.methods]

\* makeRequestHandler: the closure over the bound method and its codec entry;
\* `closure' tells the closures of different constructions apart
makeRequestHandler(apiMethod, codec, closure) ==
    [apiMethod |-> apiMethod, codec |-> codec, closure |-> closure]

NoHandlers == << >>

\* faulty variant: the api value is not checked against the API type
getRawApiRequestHandlers_noImplCheck(protocolInterfaceType, apiType, api, shardId, apiName, closure, derivable) ==
    LET codec == newApiCodec(apiType, protocolInterfaceType, derivable)
        exported == ExportedMethods(apiType)
        methodOf(p) == CHOOSE m \in exported : ProtocolID(shardId, apiName, m.Name) = p
    IN  IF codec.err # NoError
        THEN [status |-> "error",
              err |-> errRequestHandlerCreation \o ": " \o codec.err,
              requestHandlers |-> NoHandlers]
        ELSE IF \E m \in exported : m.Name \notin DOMAIN codec.table
        THEN [status |-> "panic", err |-> "Appropriate codec is not found",
              requestHandlers |-> NoHandlers]
        ELSE [status |-> "ok", err |-> NoError,
              requestHandlers |->
                  [p \in {ProtocolID(shardId, apiName, m.Name) : m \in exported} |->
                      makeRequestHandler(MethodByName(api, methodOf(p).Name),
                                         codec.table[methodOf(p).Name], closure)]]

\* getRawApiRequestHandlers: panics, returns an error, or returns the map
\* (reflect.ValueOf(nil) is the zero Value, whose Type() panics)
getRawApiRequestHandlers(protocolInterfaceType, apiType, api, shardId, apiName, closure, derivable) ==
    IF api.isNil
    THEN [status |-> "panic", err |-> "reflect: call of reflect.Value.Type on zero Value",
          requestHandlers |-> NoHandlers]
    ELSE IF ~Implements(api, apiType)
    THEN [status |-> "panic", err |-> "api does not implement " \o apiType.name,
          requestHandlers |-> NoHandlers]
    ELSE LET codec == newApiCodec(apiType, protocolInterfaceType, derivable)
             exported == ExportedMethods(apiType)
             methodOf(p) == CHOOSE m \in exported : ProtocolID(shardId, apiName, m.Name) = p
         IN  IF codec.err # NoError
             THEN [status |-> "error",
                   err |-> errRequestHandlerCreation \o ": " \o codec.err,
                   requestHandlers |-> NoHandlers]
             ELSE IF \E m \in exported : m.Name \notin DOMAIN codec.table
             THEN [status |-> "panic", err |-> "Appropriate codec is not found",
                   requestHandlers |-> NoHandlers]
             ELSE [status |-> "ok", err |-> NoError,
                   requestHandlers |->
                       [p \in {ProtocolID(shardId, apiName, m.Name) : m \in exported} |->
                           makeRequestHandler(MethodByName(api, methodOf(p).Name),
                                              codec.table[methodOf(p).Name], closure)]]

VARIABLES
    handlers,   \* the network manager's table: ProtocolID -> request handler
    call,       \* the current (or latest) call of the registration function
    prev,       \* the call before it, once it has ended
    ncalls,     \* how many registration calls were made
    reqs        \* per transport slot, the handler execution in it

vars == <<handlers, call, prev, ncalls, reqs>>

NoCall ==
    [id |-> 0, readonly |-> "", shardId |-> 0, apiName |-> "", apiType |-> "",
     protocolInterfaceType |-> "", api |-> "", status |-> "none", err |-> NoError,
     requestHandlers |-> NoHandlers, todo |-> {}, set |-> {}, before |-> NoHandlers]

\* the context of the inbound call in slot i (no byte is negative)
Ctx(i) == 0 - i

\* what a bound API method may return: a value and no error, or the zero
\* value and a business-level failure
ApiResults == {<<v, NoError>> : v \in Bytes} \cup {<<0, "business failure">>}

\* the byte strings a peer may send
RequestBytes == UNION {[1 .. n -> Bytes] : n \in 0 .. MaxRequestLen}

NoHandler ==
    [apiMethod |-> [recv |-> "", Name |-> "", valid |-> FALSE],
     codec |-> [method |-> "", pbRequest |-> << >>, pbResponse |-> ""], closure |-> 0]

Idle ==
    [pc |-> "idle", name |-> "", handler |-> NoHandler, ctx |-> Ctx(0),
     request |-> << >>, args |-> << >>, results |-> <<0, NoError>>, calls |-> << >>,
     resp |-> NilBytes, err |-> NoError]

\* what is kept of a call once the next one starts
Summary(c) ==
    [shardId |-> c.shardId, apiName |-> c.apiName, apiType |-> c.apiType,
     protocolInterfaceType |-> c.protocolInterfaceType, status |-> c.status]

Init ==
    /\ handlers = NoHandlers
    /\ call = NoCall
    /\ prev = Summary(NoCall)
    /\ ncalls = 0
    /\ reqs = [i \in Slots |-> Idle]

\* an unrecovered panic ends the process: nothing runs after it
Alive ==
    /\ call.status # "panic"
    /\ \A i \in DOMAIN reqs : reqs[i].pc # "panic"

\* the sets of method names a codec builder run may cover: all, or all but one
Derivable ==
    {MethodNames(NetworkTransportProtocol)} \cup
    {MethodNames(NetworkTransportProtocol) \ {n} : n \in MethodNames(NetworkTransportProtocol)}

\* faulty variant: each handler is installed as soon as it is built, so the
\* handlers built before a missing codec entry is met are already installed
setRawApiRequestHandlers_eager(readonly, protocolInterfaceType, apiType, api, shardId, apiName, derivable) ==
    LET got == getRawApiRequestHandlers(protocolInterfaceType, apiType, api, shardId,
                                        apiName, ncalls + 1, derivable)
        all == getRawApiRequestHandlers(protocolInterfaceType, apiType, api, shardId,
                                        apiName, ncalls + 1, MethodNames(NetworkTransportProtocol))
        early == IF got.status = "panic" /\ all.status = "ok"
                 THEN {p \in DOMAIN all.requestHandlers :
                          all.requestHandlers[p].codec.method \in derivable}
                 ELSE {}
    IN  /\ ncalls < MaxRegistrations
        /\ call.status # "running"
        /\ ncalls' = ncalls + 1
        /\ prev' = Summary(call)
        /\ call' = [id |-> ncalls + 1, readonly |-> readonly, shardId |-> shardId,
                    apiName |-> apiName, apiType |-> apiType.name,
                    protocolInterfaceType |-> protocolInterfaceType.name,
                    api |-> api.name,
                    status |-> IF got.status = "ok" THEN "running" ELSE got.status,
                    err |-> got.err,
                    requestHandlers |-> got.requestHandlers,
                    todo |-> DOMAIN got.requestHandlers,
                    set |-> {}, before |-> handlers]
        /\ handlers' = [p \in DOMAIN handlers \cup early |->
                            IF p \in early THEN all.requestHandlers[p] ELSE handlers[p]]
        /\ UNCHANGED reqs

\* faulty variant: a successful construction first drops the handlers the shard
\* had, so that the registration replaces them instead of adding to them
setRawApiRequestHandlers_reset(readonly, protocolInterfaceType, apiType, api, shardId, apiName, derivable) ==
    LET got == getRawApiRequestHandlers(protocolInterfaceType, apiType, api, shardId,
                                        apiName, ncalls + 1, derivable)
        kept == IF got.status = "ok"
                THEN {p \in DOMAIN handlers :
                        \A n \in MethodNames(NetworkTransportProtocol) :
                            p # ProtocolID(shardId, apiName, n)}
                ELSE DOMAIN handlers
    IN  /\ ncalls < MaxRegistrations
        /\ call.status # "running"
        /\ ncalls' = ncalls + 1
        /\ prev' = Summary(call)
        /\ call' = [id |-> ncalls + 1, readonly |-> readonly, shardId |-> shardId,
                    apiName |-> apiName, apiType |-> apiType.name,
                    protocolInterfaceType |-> protocolInterfaceType.name,
                    api |-> api.name,
                    status |-> IF got.status = "ok" THEN "running" ELSE got.status,
                    err |-> got.err,
                    requestHandlers |-> got.requestHandlers,
                    todo |-> DOMAIN got.requestHandlers,
                    set |-> {}, before |-> handlers]
        /\ handlers' = [p \in kept |-> handlers[p]]
        /\ UNCHANGED reqs

\* setRawApiRequestHandlers up to the loop: the handlers are built; on an error
\* the call logs it and returns it, a panic unwinds the call.  `readonly' is the
\* flag of the exported entry point ("" for a call that has none); `before' keeps
\* the table the call found.
setRawApiRequestHandlers(readonly, protocolInterfaceType, apiType, api, shardId, apiName, derivable) ==
    LET got == getRawApiRequestHandlers(protocolInterfaceType, apiType, api, shardId,
                                        apiName, ncalls + 1, derivable)
    IN  /\ Alive
        /\ ncalls < MaxRegistrations
        /\ call.status # "running"
        /\ ncalls' = ncalls + 1
        /\ prev' = Summary(call)
        /\ call' = [id |-> ncalls + 1, readonly |-> readonly, shardId |-> shardId,
                    apiName |-> apiName, apiType |-> apiType.name,
                    protocolInterfaceType |-> protocolInterfaceType.name,
                    api |-> api.name,
                    status |-> IF got.status = "ok" THEN "running" ELSE got.status,
                    err |-> got.err,
                    requestHandlers |-> got.requestHandlers,
                    todo |-> DOMAIN got.requestHandlers,
                    set |-> {}, before |-> handlers]
        /\ UNCHANGED <<handlers, reqs>>

\* faulty variant: the two branches of `if readonly' are exchanged
SetRawApiRequestHandlers_swapped ==
    \E shardId \in ShardIds, api \in {NilApi, FullApi}, readonly \in BOOLEAN,
       derivable \in Derivable :
        IF readonly
        THEN setRawApiRequestHandlers("true", NetworkTransportProtocol, ShardApi, api, shardId, "rawapi", derivable)
        ELSE setRawApiRequestHandlers("false", NetworkTransportProtocolRo, ShardApiRo, api, shardId, "rawapi", derivable)

\* SetRawApiRequestHandlers: the exported entry point; api is a ShardApi or nil
SetRawApiRequestHandlers ==
    \E shardId \in ShardIds, api \in {NilApi, FullApi}, readonly \in BOOLEAN,
       derivable \in Derivable :
        IF readonly
        THEN setRawApiRequestHandlers("true", NetworkTransportProtocolRo, ShardApiRo, api, shardId, "rawapi", derivable)
        ELSE setRawApiRequestHandlers("false", NetworkTransportProtocol, ShardApi, api, shardId, "rawapi", derivable)

\* a call of setRawApiRequestHandlers from inside the package, with any types
\* and any api value
CallInternal ==
    \E shardId \in ShardIds, api \in {NilApi, FullApi, RoApi},
       protocolInterfaceType \in {NetworkTransportProtocolRo, NetworkTransportProtocol},
       apiType \in {ShardApiRo, ShardApi}, derivable \in Derivable :
        setRawApiRequestHandlers("", protocolInterfaceType, apiType, api, shardId, "rawapi", derivable)

\* faulty variant: a name that already has a handler is skipped
InstallHandler_ifAbsent ==
    /\ call.status = "running"
    /\ \E name \in call.todo :
        /\ handlers' = IF name \in DOMAIN handlers THEN handlers
                       ELSE SetRequestHandler(handlers, name, call.requestHandlers[name])
        /\ call' = [call EXCEPT !.todo = @ \ {name}, !.set = @ \cup {name}]
    /\ UNCHANGED <<prev, ncalls, reqs>>

\* faulty variant: the iterations share one handler variable, so the names set
\* so far all end up with the handler of the latest iteration
InstallHandler_sharedVar ==
    /\ call.status = "running"
    /\ \E name \in call.todo :
        /\ handlers' = [p \in DOMAIN handlers \cup {name} |->
                            IF p \in call.set \cup {name}
                            THEN call.requestHandlers[name] ELSE handlers[p]]
        /\ call' = [call EXCEPT !.todo = @ \ {name}, !.set = @ \cup {name}]
    /\ UNCHANGED <<prev, ncalls, reqs>>

\* one iteration of `for name, handler := range requestHandlers': the map is
\* visited in any order
InstallHandler ==
    /\ Alive
    /\ call.status = "running"
    /\ \E name \in call.todo :
        /\ handlers' = SetRequestHandler(handlers, name, call.requestHandlers[name])
        /\ call' = [call EXCEPT !.todo = @ \ {name}, !.set = @ \cup {name}]
    /\ UNCHANGED <<prev, ncalls, reqs>>

\* faulty variant: `return nil' inside the loop, after the first iteration
ReturnNil_early ==
    /\ call.status = "running"
    /\ call.set # {} \/ call.todo = {}
    /\ call' = [call EXCEPT !.status = "nil"]
    /\ UNCHANGED <<handlers, prev, ncalls, reqs>>

\* the loop is over: return nil
ReturnNil ==
    /\ Alive
    /\ call.status = "running"
    /\ call.todo = {}
    /\ call' = [call EXCEPT !.status = "nil"]
    /\ UNCHANGED <<handlers, prev, ncalls, reqs>>

(***************************************************************************)
(* One execution of the closure makeRequestHandler returns, run by the     *)
(* transport in slot i.                                                    *)
(***************************************************************************)
\* the transport finds the handler installed under `name' and invokes it with
\* the inbound call's context and the request bytes
Deliver(i) ==
    /\ Alive
    /\ reqs[i].pc = "idle"
    /\ \E name \in DOMAIN handlers, request \in RequestBytes :
        reqs' = [reqs EXCEPT ![i] =
                    [Idle EXCEPT !.pc = "unpack", !.name = name, !.handler = handlers[name],
                                 !.ctx = Ctx(i), !.request = request]]
    /\ UNCHANGED <<handlers, call, prev, ncalls>>

\* faulty variant: the decoded arguments are kept in a variable of the enclosing
\* makeRequestHandler, shared by the executions of one handler
Unpack_sharedArgs(i) ==
    /\ reqs[i].pc = "unpack"
    /\ LET r == reqs[i]
           u == unpackRequest(r.handler.codec, r.request)
       IN  reqs' = [j \in DOMAIN reqs |->
                IF j = i
                THEN IF u.err # NoError
                     THEN [r EXCEPT !.pc = "done", !.resp = packError(r.handler.codec, u.err),
                                    !.err = NoError]
                     ELSE [r EXCEPT !.pc = "call", !.args = u.args]
                ELSE IF u.err = NoError /\ reqs[j].pc = "call" /\ reqs[j].handler = r.handler
                     THEN [reqs[j] EXCEPT !.args = u.args]
                     ELSE reqs[j]]
    /\ UNCHANGED <<handlers, call, prev, ncalls>>

\* faulty variant: a decoding error is returned as the handler's error
Unpack_returnsErr(i) ==
    /\ reqs[i].pc = "unpack"
    /\ LET r == reqs[i]
           u == unpackRequest(r.handler.codec, r.request)
       IN  reqs' = [reqs EXCEPT ![i] =
                IF u.err # NoError
                THEN [r EXCEPT !.pc = "done", !.resp = NilBytes, !.err = u.err]
                ELSE [r EXCEPT !.pc = "call", !.args = u.args]]
    /\ UNCHANGED <<handlers, call, prev, ncalls>>

\* unpackedArguments, err := codec.unpackRequest(request);
\* if err != nil { return codec.packError(err), nil }
Unpack(i) ==
    /\ Alive
    /\ reqs[i].pc = "unpack"
    /\ LET r == reqs[i]
           u == unpackRequest(r.handler.codec, r.request)
       IN  reqs' = [reqs EXCEPT ![i] =
                IF u.err # NoError
                THEN [r EXCEPT !.pc = "done", !.resp = packError(r.handler.codec, u.err),
                               !.err = NoError]
                ELSE [r EXCEPT !.pc = "call", !.args = u.args]]
    /\ UNCHANGED <<handlers, call, prev, ncalls>>

\* faulty variant: the context is appended after the unpacked arguments
apiArguments_ctxLast(r) == r.args \o <<r.ctx>>

\* apiArguments := ctx followed by the unpacked arguments;
\* apiCallResults := apiMethod.Call(apiArguments)
apiArguments(r) == <<r.ctx>> \o r.args

CallApi(i) ==
    /\ Alive
    /\ reqs[i].pc = "call"
    /\ LET r == reqs[i]
       IN  IF r.handler.apiMethod.valid
           THEN \E results \in ApiResults :
                    reqs' = [reqs EXCEPT ![i] =
                        [r EXCEPT !.pc = "pack", !.results = results,
                                  !.calls = Append(@, [method |-> r.handler.apiMethod,
                                                       args |-> apiArguments(r)])]]
           ELSE reqs' = [reqs EXCEPT ![i] = [r EXCEPT !.pc = "panic"]]
    /\ UNCHANGED <<handlers, call, prev, ncalls>>

\* faulty variant: a failure of the API method is returned as the handler's error
Pack_propagates(i) ==
    /\ reqs[i].pc = "pack"
    /\ LET r == reqs[i]
           p == packResponse(r.handler.codec, r.results)
       IN  reqs' = [reqs EXCEPT ![i] =
                IF r.results[2] # NoError
                THEN [r EXCEPT !.pc = "done", !.resp = NilBytes, !.err = r.results[2]]
                ELSE [r EXCEPT !.pc = "done", !.resp = p.bytes, !.err = p.err]]
    /\ UNCHANGED <<handlers, call, prev, ncalls>>

\* faulty variant: the results are dropped and the handler returns nil, nil
Pack_nil(i) ==
    /\ reqs[i].pc = "pack"
    /\ reqs' = [reqs EXCEPT ![i] = [@ EXCEPT !.pc = "done", !.resp = NilBytes,
                                             !.err = NoError]]
    /\ UNCHANGED <<handlers, call, prev, ncalls>>

\* return codec.packResponse(apiCallResults...)
Pack(i) ==
    /\ Alive
    /\ reqs[i].pc = "pack"
    /\ LET r == reqs[i]
           p == packResponse(r.handler.codec, r.results)
       IN  reqs' = [reqs EXCEPT ![i] = [r EXCEPT !.pc = "done", !.resp = p.bytes,
                                                 !.err = p.err]]
    /\ UNCHANGED <<handlers, call, prev, ncalls>>

\* the transport sends the response and the slot is free again
Respond(i) ==
    /\ Alive
    /\ reqs[i].pc = "done"
    /\ reqs' = [reqs EXCEPT ![i] = Idle]
    /\ UNCHANGED <<handlers, call, prev, ncalls>>

Next ==
    \/ SetRawApiRequestHandlers
    \/ CallInternal
    \/ InstallHandler
    \/ ReturnNil
    \/ \E i \in Slots : Deliver(i)
    \/ \E i \in Slots : Unpack(i)
    \/ \E i \in Slots : CallApi(i)
    \/ \E i \in Slots : Pack(i)
    \/ \E i \in Slots : Respond(i)

Spec == Init /\ [][Next]_vars

\* the registration functions alone: no request is served meanwhile (a
\* handler execution changes none of handlers, call, prev and ncalls)
NextReg ==
    \/ SetRawApiRequestHandlers
    \/ CallInternal
    \/ InstallHandler
    \/ ReturnNil

SpecReg == Init /\ [][NextReg]_vars

\* The node once SetRawApiRequestHandlers has returned nil for a shard: the
\* handlers of the call are installed and the transport runs up to
\* MaxConcurrent handler executions at the same time.
InitServing ==
    \E shardId \in ShardIds, readonly \in BOOLEAN :
        LET protocolInterfaceType ==
                IF readonly THEN NetworkTransportProtocolRo ELSE NetworkTransportProtocol
            apiType == IF readonly THEN ShardApiRo ELSE ShardApi
            got == getRawApiRequestHandlers(protocolInterfaceType, apiType, FullApi, shardId,
                                            "rawapi", 1, MethodNames(NetworkTransportProtocol))
        IN  /\ handlers = got.requestHandlers
            /\ call = [id |-> 1, readonly |-> IF readonly THEN "true" ELSE "false",
                       shardId |-> shardId, apiName |-> "rawapi", apiType |-> apiType.name,
                       protocolInterfaceType |-> protocolInterfaceType.name,
                       api |-> FullApi.name, status |-> "nil", err |-> got.err,
                       requestHandlers |-> got.requestHandlers, todo |-> {},
                       set |-> DOMAIN got.requestHandlers, before |-> NoHandlers]
            /\ prev = Summary(NoCall)
            /\ ncalls = 1
            /\ reqs = [i \in Workers |-> Idle]

NextServing ==
    \/ \E i \in Workers : Deliver(i)
    \/ \E i \in Workers : Unpack(i)
    \/ \E i \in Workers : CallApi(i)
    \/ \E i \in Workers : Pack(i)
    \/ \E i \in Workers : Respond(i)

SpecServing == InitServing /\ [][NextServing]_vars

\* the handler executions run to their end: the goroutine the transport
\* starts for a request is scheduled, and the API method it calls returns
Fairness ==
    \A i \in Slots : WF_vars(Unpack(i)) /\ WF_vars(CallApi(i)) /\ WF_vars(Pack(i))

LiveSpec == Spec /\ Fairness

(***************************************************************************)
(* Properties.                                                             *)
(***************************************************************************)
\* the names of the read-only methods kept, and of the exported methods of an
\* API type given by its name
RoNames == {RoProtocolMethods[i].Name : i \in 1 .. Min(MaxRoMethods, Len(RoProtocolMethods))}
ExportedNamesOf(apiTypeName) ==
    IF apiTypeName = "ShardApiRo" THEN RoNames ELSE RoNames \cup {"SendTransaction"}
RawApiId(shardId, methodName) ==
    "/shard/" \o ToString(shardId) \o "/rawapi/" \o methodName
Malformed(request) == ~(Len(request) >= 1 /\ request[1] = 1)

\* C1: a call that returned nil passed to SetRequestHandler exactly the
\* identifiers /shard/<s>/rawapi/<m>, s in decimal, of the exported methods m of
\* its API type, and each of them holds the handler the call built for it.
C1_ExactIdentifiers ==
    call.status = "nil" =>
        LET expected == {RawApiId(call.shardId, n) : n \in ExportedNamesOf(call.apiType)}
        IN  /\ call.set = expected
            /\ expected \subseteq DOMAIN handlers
            /\ \A p \in expected : handlers[p] = call.requestHandlers[p]

C1_Witness ==
    /\ call.status = "nil"
    /\ call.readonly = "false"
    /\ call.shardId >= 10
    /\ Cardinality(call.set) = Cardinality(RoNames) + 1

\* C2: a call with readonly=true never passes a SendTransaction identifier to
\* SetRequestHandler, whatever the api value implements; a call with
\* readonly=false that returned nil installed every read-only method and
\* SendTransaction.
C2_CapabilitySeparation ==
    /\ call.readonly = "true" =>
        /\ \A s \in ShardIds : RawApiId(s, "SendTransaction") \notin call.set
        /\ \A p \in call.set : call.requestHandlers[p].apiMethod.Name # "SendTransaction"
    /\ (call.readonly = "false" /\ call.status = "nil") =>
        \A n \in RoNames \cup {"SendTransaction"} :
            /\ RawApiId(call.shardId, n) \in call.set
            /\ RawApiId(call.shardId, n) \in DOMAIN handlers

C2_Witness ==
    /\ call.readonly = "true"
    /\ call.api = "fullApi"
    /\ call.status = "nil"
    /\ RawApiId(call.shardId, "SendTransaction") \notin DOMAIN handlers

\* C3: a handler execution whose request does not decode never invokes the API
\* method and ends with the codec's packed error as its bytes and a nil error.
C3_MalformedRequest ==
    \A i \in Slots :
        LET r == reqs[i]
        IN  (r.pc # "idle" /\ Malformed(r.request)) =>
                /\ r.pc \in {"unpack", "done"}
                /\ r.calls = << >>
                /\ r.pc = "done" =>
                    /\ r.err = NoError
                    /\ r.resp = [pb |-> r.handler.codec.pbResponse, failed |-> TRUE,
                                 error |-> "cannot unpack request", data |-> << >>]

C3_Witness ==
    \E i \in Slots : reqs[i].pc = "done" /\ Malformed(reqs[i].request)

\* C4: no handler execution ends with a non-nil error or crashes; when the API
\* method returned a business-level failure, the bytes returned carry the
\* failure indicator and that failure.
C4_NoTransportError ==
    \A i \in Slots :
        LET r == reqs[i]
        IN  /\ r.pc # "panic"
            /\ r.err = NoError
            /\ (r.pc = "done" /\ r.calls # << >> /\ r.results[2] # NoError) =>
                    /\ r.resp # NilBytes
                    /\ r.resp.failed
                    /\ r.resp.error = r.results[2]

C4_Witness ==
    \E i \in Slots :
        /\ reqs[i].pc = "done"
        /\ reqs[i].calls # << >>
        /\ reqs[i].results[2] = "business failure"

\* C5: a call that ended with an error or a panic called SetRequestHandler
\* zero times and left the handler table as it found it.
C5_NoPartialRegistration ==
    call.status \in {"error", "panic"} =>
        /\ call.set = {}
        /\ handlers = call.before

C5_Witness ==
    /\ call.status = "panic"
    /\ call.readonly = "false"
    /\ call.api = "nil"
    /\ call.set = {}
    /\ handlers # NoHandlers

\* C6 as stated: every call returns success or returns an error.
C6_ReturnsSuccessOrError ==
    call.status \in {"none", "running", "nil", "error"}

\* C6, amended: a call returns nil, returns an error that wraps
\* errRequestHandlerCreation (the codec table could not be built), or panics;
\* it panics exactly when the api value does not implement the API type or a
\* method has no codec entry.
C6_SuccessErrorOrPanic ==
    LET notImplemented ==
            call.api = "nil" \/ (call.api = "roApi" /\ call.apiType = "ShardApi")
    IN  /\ call.status \in {"none", "running", "nil", "error", "panic"}
        /\ (call.id > 0 /\ notImplemented) => call.status = "panic"
        /\ call.status = "panic" =>
                notImplemented \/ call.err = "Appropriate codec is not found"
        /\ call.status = "error" =>
                call.err = "failed to create request handler: mirror method not found"
        /\ call.status \in {"running", "nil"} => call.err = NoError

C6_Witness ==
    /\ call.status = "panic"
    /\ call.readonly = "true"
    /\ call.api = "nil"

C8_ReRegistration ==
    (/\ call.status = "nil"
     /\ prev.status = "nil"
     /\ prev.shardId = call.shardId
     /\ prev.apiName = call.apiName
     /\ prev.apiType = call.apiType
     /\ prev.protocolInterfaceType = call.protocolInterfaceType) =>
        /\ DOMAIN handlers = DOMAIN call.before
        /\ \A p \in DOMAIN call.requestHandlers :
            /\ handlers[p].closure = call.id
            /\ call.before[p].closure # call.id
            /\ handlers[p] = call.requestHandlers[p]

C8_Witness ==
    /\ call.status = "nil"
    /\ prev.status = "nil"
    /\ prev.shardId = call.shardId
    /\ prev.apiType = call.apiType
    /\ prev.protocolInterfaceType = call.protocolInterfaceType
    /\ call.readonly = "false"
    /\ \A p \in DOMAIN handlers : handlers[p].closure = 2

\* C9: a handler execution started on a well-formed request eventually ends
\* with response bytes and a nil error, for as long as the process runs (the
\* panic of a registration call ends the process and the executions in it).
C9_EventuallyResponds ==
    \A i \in Slots :
        (reqs[i].pc = "unpack" /\ ~Malformed(reqs[i].request))
            ~> \/ reqs[i].pc = "done" /\ reqs[i].resp # NilBytes /\ reqs[i].err = NoError
               \/ call.status = "panic"

C9_Witness ==
    \E i \in Slots :
        /\ reqs[i].pc = "done"
        /\ ~Malformed(reqs[i].request)
        /\ reqs[i].resp # NilBytes
        /\ reqs[i].resp.failed = FALSE

\* C10: a handler execution whose request decodes invokes its bound method
\* exactly once, with the context of the inbound call followed by the decoded
\* arguments in the order of the request, and returns the encoding of the
\* results of that call.
C10_OneCall ==
    \A i \in Slots :
        LET r == reqs[i]
        IN  (r.pc # "idle" /\ ~Malformed(r.request)) =>
                /\ r.pc \in {"unpack", "call"} => r.calls = << >>
                /\ r.pc \in {"pack", "done"} =>
                    /\ Len(r.calls) = 1
                    /\ r.calls[1].method = r.handler.apiMethod
                    /\ r.calls[1].args = <<Ctx(i)>> \o Tail(r.request)
                /\ r.pc = "done" =>
                    /\ r.err = NoError
                    /\ r.resp = IF r.results[2] # NoError
                                THEN [pb |-> r.handler.codec.pbResponse, failed |-> TRUE,
                                      error |-> r.results[2], data |-> << >>]
                                ELSE [pb |-> r.handler.codec.pbResponse, failed |-> FALSE,
                                      error |-> NoError, data |-> <<r.results[1]>>]

C10_Witness ==
    \E i \in Slots :
        /\ reqs[i].pc = "done"
        /\ reqs[i].request = <<1, 0, 1>>
        /\ reqs[i].results = <<1, NoError>>

\* the mirror method of a name, and the methods a registration may expose
MirrorOf(methodName) ==
    CHOOSE pb \in NetworkTransportProtocol.methods : pb.Name = methodName
AllNames == RoNames \cup {"SendTransaction"}

\* C11: the handler installed at /shard/<s>/rawapi/<m> is bound to method m of
\* the api value of its registration and to the codec entry built from the
\* mirror method m; an execution delivered to that identifier decodes with
\* that entry, calls method m and answers in the response shape of m.
C11_NotCrossWired ==
    /\ \A s \in ShardIds, m \in AllNames :
        LET p == RawApiId(s, m)
        IN  p \in DOMAIN handlers =>
                /\ handlers[p].apiMethod.Name = m
                /\ handlers[p].apiMethod.valid
                /\ handlers[p].codec = [method |-> m, pbRequest |-> MirrorOf(m).In,
                                        pbResponse |-> MirrorOf(m).Out]
                /\ p \in call.set => handlers[p].apiMethod.recv = call.api
    /\ \A i \in Slots, s \in ShardIds, m \in AllNames :
        LET r == reqs[i]
        IN  (r.pc # "idle" /\ r.name = RawApiId(s, m)) =>
                /\ r.handler.codec.method = m
                /\ r.handler.apiMethod.Name = m
                /\ \A k \in 1 .. Len(r.calls) : r.calls[k].method.Name = m
                /\ r.pc = "done" => r.resp.pb = MirrorOf(m).Out

C11_Witness ==
    \E i \in Slots, s \in ShardIds :
        /\ reqs[i].pc = "done"
        /\ reqs[i].name = RawApiId(s, RoProtocolMethods[1].Name)
        /\ Len(reqs[i].calls) = 1
        /\ RawApiId(s, "SendTransaction") \in DOMAIN handlers
        /\ Cardinality(DOMAIN handlers) >= Cardinality(AllNames)

\* C12: whatever the order in which the loop visits the map, the handler table
\* depends only on the table the call found and on the set of names installed
\* so far: it is the table found, with the call's handler at each of those
\* names; so every order ends in the same table.
C12_OrderIrrelevant ==
    call.status \in {"running", "nil"} =>
        handlers = [p \in DOMAIN call.before \cup call.set |->
                        IF p \in call.set THEN call.requestHandlers[p] ELSE call.before[p]]

C12_Witness ==
    /\ call.status = "nil"
    /\ Cardinality(call.set) >= 2
    /\ \E p \in call.set : p \in DOMAIN call.before /\ call.before[p] # handlers[p]
    /\ \E p \in DOMAIN handlers : p \notin call.set

\* what an execution answers, from its own handler, request and API results
ExpectedResponse(r) ==
    IF Malformed(r.request)
    THEN [pb |-> r.handler.codec.pbResponse, failed |-> TRUE,
          error |-> "cannot unpack request", data |-> << >>]
    ELSE IF r.results[2] # NoError
    THEN [pb |-> r.handler.codec.pbResponse, failed |-> TRUE,
          error |-> r.results[2], data |-> << >>]
    ELSE [pb |-> r.handler.codec.pbResponse, failed |-> FALSE,
          error |-> NoError, data |-> <<r.results[1]>>]

\* the part of C13 that is about a state: whatever the other executions do, an
\* execution holds the arguments decoded from its own request, calls its method
\* with its own context and those arguments, and answers from its own results
OwnDataOnly ==
    \A i \in DOMAIN reqs :
        LET r == reqs[i]
        IN  r.pc # "idle" =>
                /\ r.ctx = Ctx(i)
                /\ r.name \in DOMAIN handlers /\ r.handler = handlers[r.name]
                /\ (r.pc \in {"call", "pack", "done"} /\ ~Malformed(r.request)) =>
                        r.args = Tail(r.request)
                /\ r.pc \in {"pack", "done"} /\ ~Malformed(r.request) =>
                        r.calls = <<[method |-> r.handler.apiMethod,
                                     args |-> <<Ctx(i)>> \o Tail(r.request)]>>
                /\ r.pc = "done" => r.err = NoError /\ r.resp = ExpectedResponse(r)

\* the part of C13 that is about a step: a step of one execution changes no
\* other execution, no codec entry and no entry of the handler table
OwnStepOnly ==
    /\ handlers' = handlers
    /\ \A i, j \in DOMAIN reqs : (i # j /\ reqs'[i] # reqs[i]) => reqs'[j] = reqs[j]

\* C13: in every interleaving of handler executions, of one method or of
\* several, each execution works on its own request, context and results only,
\* and none modifies another execution, a codec entry or the handler table.
C13_ConcurrentHandlers == []OwnDataOnly /\ [][OwnStepOnly]_vars

C13_Witness ==
    \E i, j \in DOMAIN reqs :
        /\ i # j
        /\ reqs[i].pc = "done" /\ reqs[j].pc = "pack"
        /\ reqs[i].name = reqs[j].name
        /\ ~Malformed(reqs[i].request) /\ ~Malformed(reqs[j].request)
        /\ reqs[i].request # reqs[j].request
        /\ reqs[i].results # reqs[j].results

\* the part of C14 that is about a state: the identifiers of the table are those
\* the call found and those it has installed; after a full registration and
\* then a read-only one of the same shard, both ended with nil, the
\* SendTransaction identifier of the shard still holds the earlier handler
UnionOfInstalled ==
    /\ DOMAIN handlers = DOMAIN call.before \cup call.set
    /\ (/\ call.status = "nil" /\ call.readonly = "true"
        /\ prev.status = "nil" /\ prev.apiType = "ShardApi"
        /\ prev.shardId = call.shardId) =>
            LET p == RawApiId(call.shardId, "SendTransaction")
            IN  /\ p \in DOMAIN handlers
                /\ p \notin call.set
                /\ handlers[p] = call.before[p]
                /\ handlers[p].apiMethod.Name = "SendTransaction"

\* the part of C14 that is about a step: no step removes an identifier
NeverRemoves == DOMAIN handlers \subseteq DOMAIN handlers'

\* C14: registrations only add or overwrite entries of the handler table, so
\* the table holds the union of what the calls installed; in particular a
\* read-only registration leaves the SendTransaction handler of an earlier full
\* registration of the same shard installed.
C14_NeverRemoves == []UnionOfInstalled /\ [][NeverRemoves]_vars

C14_Witness ==
    /\ call.status = "nil" /\ call.readonly = "true"
    /\ prev.status = "nil" /\ prev.apiType = "ShardApi"
    /\ prev.shardId = call.shardId
    /\ call.shardId >= 10
    /\ RawApiId(call.shardId, "SendTransaction") \in DOMAIN handlers

\* the identifiers of a shard, and every shard id up to the largest of the model
IdsOfShard(shardId) == {RawApiId(shardId, m) : m \in AllNames}
AllShardIds == 0 .. ShardStride * MaxShardId

\* distinct (shard, method) pairs have distinct ProtocolIDs
ProtocolIDsDistinct ==
    \A s1 \in AllShardIds, s2 \in AllShardIds, m1 \in AllNames, m2 \in AllNames :
        ProtocolID(s1, "rawapi", m1) = ProtocolID(s2, "rawapi", m2) => (s1 = s2 /\ m1 = m2)

\* C15: a call for shard s passes to SetRequestHandler only identifiers of the
\* form /shard/<s>/rawapi/<m>; every other entry of the table, those of the
\* other shards among them, is the entry the call found, and the call adds no
\* entry to another shard; distinct (shard, method) pairs have distinct
\* identifiers.
C15_ShardsIndependent ==
    /\ ProtocolIDsDistinct
    /\ call.set \subseteq IdsOfShard(call.shardId)
    /\ DOMAIN call.requestHandlers \subseteq IdsOfShard(call.shardId)
    /\ \A p \in (DOMAIN handlers \cup DOMAIN call.before) \ IdsOfShard(call.shardId) :
        /\ p \in DOMAIN handlers
        /\ p \in DOMAIN call.before
        /\ handlers[p] = call.before[p]
    /\ \A s \in ShardIds \ {call.shardId} :
        IdsOfShard(s) \cap IdsOfShard(call.shardId) = {}

C15_Witness ==
    /\ call.status = "nil"
    /\ prev.status = "nil"
    /\ prev.shardId # call.shardId
    /\ call.set # {}
    /\ \E p \in IdsOfShard(prev.shardId) :
        p \in DOMAIN handlers /\ handlers[p].closure # call.id

====
